---- MODULE Spec2Model ----
(***************************************************************************)
(* Model of the CTF client of src/attack.py: the CTFClient session state   *)
(* (captured_flags, conversation_history), the rate_limit and              *)
(* retry_on_failure decorators around the three API calls, flag            *)
(* extraction, automated_attack and the interactive menus.                 *)
(*                                                                         *)
(* Texts (responses, flags, guesses) are sequences of one-character        *)
(* strings.  Time is counted in ticks of 1 / calls_per_second seconds; the  *)
(* limiter only compares the time since last_called with min_interval, so  *)
(* the model keeps that difference, saturated at min_interval, instead of  *)
(* the absolute clock.                                                     *)
(***************************************************************************)
EXTENDS Integers, Sequences, FiniteSets, TLC

\* ------------------------------------------------------------ constants

\* retry_on_failure(max_retries = 3, delay = 1.0): attack.py line 40
MaxRetries == 3
DelaySeconds == 1
\* rate_limit(calls_per_second = 2): attack.py lines 87, 98, 121
CallsPerSecond == 2
\* the lengths of the bare alphanumeric patterns: attack.py lines 149-151
MD5Len == 32
SHA1Len == 40
SHA256Len == 64

\* ------------------------------------------------------------ bounds

\* length of the strategy catalog used by the model
NumStrategies == 2
\* most conversation turns recorded in a session
MaxHistory == 2
\* most pieces a text of the extraction check is made of
MaxPieces == 4

\* ------------------------------------------------------------ texts

Str(n, c) == [i \in 1..n |-> c]

RECURSIVE Concat(_)
Concat(ss) == IF ss = <<>> THEN <<>> ELSE Head(ss) \o Concat(Tail(ss))

UpperChars ==
    {"A","B","C","D","E","F","G","H","I","J","K","L","M",
     "N","O","P","Q","R","S","T","U","V","W","X","Y","Z"}
LowerChars ==
    {"a","b","c","d","e","f","g","h","i","j","k","l","m",
     "n","o","p","q","r","s","t","u","v","w","x","y","z"}
DigitChars == {"0","1","2","3","4","5","6","7","8","9"}

\* the character class [A-Za-z0-9]
IsAlnum(c) == c \in UpperChars \cup LowerChars \cup DigitChars

\* the four bracketed patterns' literal prefixes, in the order of `patterns`
BracketPrefixes ==
    << <<"F","L","A","G","{">>, <<"f","l","a","g","{">>,
       <<"C","T","F","{">>,     <<"c","t","f","{">> >>

\* the three run lengths, in the order of `patterns`
RunLengths == <<MD5Len, SHA1Len, SHA256Len>>

\* whether `text` holds `lit` at position i
HasLiteralAt(text, i, lit) ==
    /\ i + Len(lit) - 1 <= Len(text)
    /\ \A k \in 1..Len(lit) : text[i + k - 1] = lit[k]

\* the position of the first "}" at or after i, 0 when there is none
RECURSIVE FirstClose(_, _)
FirstClose(text, i) ==
    IF i > Len(text) THEN 0
    ELSE IF text[i] = "}" THEN i
    ELSE FirstClose(text, i + 1)

\* PREFIX\{[^}]+\} tried at position i: the end of the match, 0 for no match.
\* [^}]+ is greedy and cannot cross a "}", so the match ends at the first
\* "}" after a body of at least one character.
BracketMatchEnd(text, i, prefix) ==
    LET b == i + Len(prefix)
    IN  IF HasLiteralAt(text, i, prefix) /\ b <= Len(text) /\ text[b] # "}"
        THEN FirstClose(text, b + 1)
        ELSE 0

\* [A-Za-z0-9]{n} tried at position i: the end of the match, 0 for no match
RunMatchEnd(text, i, n) ==
    IF i + n - 1 <= Len(text) /\ \A k \in i..(i + n - 1) : IsAlnum(text[k])
    THEN i + n - 1
    ELSE 0

\* pattern p of `patterns` (1..7) tried at position i
MatchEnd(text, i, p) ==
    IF p <= Len(BracketPrefixes)
    THEN BracketMatchEnd(text, i, BracketPrefixes[p])
    ELSE RunMatchEnd(text, i, RunLengths[p - Len(BracketPrefixes)])

NumPatterns == Len(BracketPrefixes) + Len(RunLengths)

\* re.findall(pattern, text): the leftmost non-overlapping matches, scanning
\* from position i; after a match the scan resumes behind it
RECURSIVE FindAllFrom(_, _, _)
FindAllFrom(text, i, p) ==
    IF i > Len(text) THEN <<>>
    ELSE LET e == MatchEnd(text, i, p)
         IN  IF e > 0
             THEN <<SubSeq(text, i, e)>> \o FindAllFrom(text, e + 1, p)
             ELSE FindAllFrom(text, i + 1, p)

FindAll(text, p) == FindAllFrom(text, 1, p)

\* the loop over `patterns`: potential_flags.extend(matches)
RECURSIVE ExtendAll(_, _)
ExtendAll(text, p) ==
    IF p > NumPatterns THEN <<>>
    ELSE FindAll(text, p) \o ExtendAll(text, p + 1)

Range(s) == {s[i] : i \in 1..Len(s)}

\* the lists holding each element of set S exactly once
ListsOf(S) ==
    {s \in [1..Cardinality(S) -> S] : \A i, j \in 1..Cardinality(S) : s[i] = s[j] => i = j}

\* a faulty variant of Deduplicated: the list is returned as collected
Deduplicated_kept(matches) == {matches}

\* list(set(potential_flags)): the distinct matches, in an order the set
\* iteration decides
Deduplicated(matches) == ListsOf(Range(matches))

\* extract_potential_flags(text): every list the call may return
ExtractPotentialFlags(text) == Deduplicated(ExtendAll(text, 1))

\* ------------------------------------------------------------ the API

\* the target identifiers the remote API knows
Targets == {"t1", "t2"}

\* the lists GET /targets may answer with (only the 'id' of a target is kept)
TargetLists == {<<>>, <<"t1", "t2", "t1">>}

FlagA == <<"F","L","A","G","{","a","}">>
FlagB == <<"c","t","f","{","b","}">>

\* the texts POST /attack may answer with: no candidate, two candidates
Responses ==
    { <<"n","o">>,
      FlagA \o <<" ">> \o FlagB }

\* the guesses a user types at the [g]uess prompt
TypedGuesses == {FlagA, FlagB}

\* what an attempt can fail with: requests.exceptions.ConnectionError and
\* HTTPError (raise_for_status) are RequestExceptions; JSONDecodeError
\* (response.json()) is a ValueError
Failures == {"ConnectionError", "HTTPError", "JSONDecodeError"}
IsValueError(exc) == exc = "JSONDecodeError"

\* get_default_strategies(): the catalog, strategy k standing for its text
DefaultStrategies == [k \in 1..NumStrategies |-> <<"strategy", k>>]

\* the message a user types at the "Enter message: " prompt
TypedMessage == <<"typed", 0>>

Ops == {"get_targets", "send_attack", "submit_guess"}

\* ------------------------------------------------------------ the clock

\* the clock ticks calls_per_second times a second
TicksPerSecond == CallsPerSecond
\* min_interval = 1.0 / calls_per_second, in ticks
MinInterval == TicksPerSecond \div CallsPerSecond
\* delay, in ticks
DelayTicks == DelaySeconds * TicksPerSecond

Saturate(d) == IF d > MinInterval THEN MinInterval ELSE d

\* ------------------------------------------------------------ dicts

\* d[k] = v of a Python dict held as a function
Put(d, k, v) == [x \in DOMAIN d \cup {k} |-> IF x = k THEN v ELSE d[x]]

EmptyDict == [x \in {} |-> <<>>]

\* ------------------------------------------------------------ state

VARIABLES
    captured_flags,        \* self.captured_flags: target id -> accepted guess
    conversation_history,  \* self.conversation_history: target id -> turns
    elapsed,               \* per decorated function: time.time() - last_called[0], saturated
    sinceIssue,            \* time since the last outbound request, saturated
    lastGap,               \* time between the request in flight and the one before, saturated
    pc,                    \* where the control thread is
    exitCause,             \* why main() ended
    input,                 \* the menu line just read by input()
    targets,               \* interactive_mode's `targets`
    target,                \* _interact_with_target's / automated_attack's `target_id`
    autoTargets,           \* automated_attack's `targets`
    ti,                    \* automated_attack: index of the target being visited
    si,                    \* automated_attack: index of the strategy being tried
    sent,                  \* the messages sent to the target of this visit
    response,              \* the local `response`
    potential_flags,       \* the local `potential_flags`
    fi,                    \* index of `flag` in the loop over potential_flags
    tried,                 \* the candidates submitted since `response` arrived
    call,                  \* the API call in progress (retry and rate-limit wrappers)
    ret,                   \* how the last API call ended
    answer                 \* what the API answered to the request that ended the call

session == <<captured_flags, conversation_history>>
clock == <<elapsed, sinceIssue, lastGap>>
autoFrame == <<autoTargets, ti, si, sent>>
flagLoop == <<response, potential_flags, fi, tried>>
callVars == <<call, ret, answer>>
vars == <<captured_flags, conversation_history, elapsed, sinceIssue, lastGap,
          pc, exitCause, input, targets, target, autoTargets, ti, si, sent,
          response, potential_flags, fi, tried, call, ret, answer>>

NoCall == [op |-> "none", target |-> "none", arg |-> <<>>, attempt |-> 0,
           phase |-> "idle", invocations |-> 0, waits |-> <<>>, fails |-> 0]
NoRet == [kind |-> "none", op |-> "none", value |-> <<>>, exc |-> "none",
          invocations |-> 0, waits |-> <<>>, fails |-> 0]
NoAnswer == [kind |-> "none", value |-> <<>>]

TotalTurns ==
    LET RECURSIVE Sum(_)
        Sum(S) == IF S = {} THEN 0
                  ELSE LET t == CHOOSE x \in S : TRUE
                       IN  Len(conversation_history[t]) + Sum(S \ {t})
    IN  Sum(DOMAIN conversation_history)

Init ==
    /\ captured_flags = EmptyDict
    /\ conversation_history = EmptyDict
    /\ elapsed = [o \in Ops |-> MinInterval]
    /\ sinceIssue = MinInterval
    /\ lastGap = MinInterval
    /\ pc = "main"
    /\ exitCause = "none"
    /\ input = ""
    /\ targets = <<>>
    /\ target = "none"
    /\ autoTargets = <<>>
    /\ ti = 0
    /\ si = 0
    /\ sent = <<>>
    /\ response = <<>>
    /\ potential_flags = <<>>
    /\ fi = 0
    /\ tried = <<>>
    /\ call = NoCall
    /\ ret = NoRet
    /\ answer = NoAnswer

\* ------------------------------------------------------------ the wrappers

\* time passing by d ticks
Advance(d) ==
    /\ elapsed' = [o \in Ops |-> Saturate(elapsed[o] + d)]
    /\ sinceIssue' = Saturate(sinceIssue + d)

\* rate_limit's wrapper: left_to_wait = min_interval - elapsed, slept when > 0
LeftToWait(op) ==
    LET left == MinInterval - elapsed[op]
    IN  IF left > 0 THEN left ELSE 0

\* a faulty variant of IsLastAttempt: one attempt more before giving up
IsLastAttempt_late(attempt) == attempt = MaxRetries

\* retry_on_failure's wrapper: `if attempt == max_retries - 1: raise`
IsLastAttempt(attempt) == attempt = MaxRetries - 1

\* a faulty variant of BackoffTicks: the wait does not grow with the attempt
BackoffTicks_flat(attempt) == DelayTicks

\* retry_on_failure's wrapper: time.sleep(delay * (attempt + 1))
BackoffTicks(attempt) == DelayTicks * (attempt + 1)

\* a decorated method is called: the retry loop starts with attempt 0
BeginCall(op, tgt, arg) ==
    /\ call' = [op |-> op, target |-> tgt, arg |-> arg, attempt |-> 0,
                phase |-> "ready", invocations |-> 0, waits |-> <<>>, fails |-> 0]
    /\ ret' = NoRet
    /\ answer' = NoAnswer

\* the caller takes the call's outcome
Consume ==
    /\ ret' = NoRet
    /\ answer' = NoAnswer
    /\ UNCHANGED call

Returned == call.phase = "idle" /\ ret.kind = "ok"
Raised == call.phase = "idle" /\ ret.kind = "exc"

\* the retry wrapper invokes the rate-limited function: the limiter sleeps
\* what is left of min_interval, then the request goes out
CallIssue ==
    /\ pc # "exited"
    /\ call.phase = "ready"
    /\ LET wait == LeftToWait(call.op)
       IN  /\ elapsed' = [o \in Ops |-> Saturate(elapsed[o] + wait)]
           /\ lastGap' = Saturate(sinceIssue + wait)
           /\ sinceIssue' = 0
    /\ call' = [call EXCEPT !.phase = "sent", !.invocations = @ + 1]
    /\ UNCHANGED <<session, pc, exitCause, input, targets, target, autoFrame,
                   flagLoop, ret, answer>>

\* the request fails (session.get/post raises, raise_for_status raises, or
\* response.json() raises): the rate limiter's last_called is not updated;
\* the retry wrapper re-raises on the last attempt and sleeps otherwise
RespondFailure ==
    /\ pc # "exited"
    /\ call.phase = "sent"
    /\ \E exc \in Failures :
        IF IsLastAttempt(call.attempt)
        THEN /\ answer' = [kind |-> exc, value |-> <<>>]
             /\ ret' = [kind |-> "exc", op |-> call.op, value |-> <<>>, exc |-> exc,
                        invocations |-> call.invocations, waits |-> call.waits,
                        fails |-> call.fails + 1]
             /\ call' = NoCall
             /\ lastGap' = MinInterval
             /\ UNCHANGED <<elapsed, sinceIssue>>
        ELSE /\ Advance(BackoffTicks(call.attempt))
             /\ call' = [call EXCEPT !.phase = "ready",
                                     !.attempt = @ + 1,
                                     !.waits = Append(@, BackoffTicks(call.attempt)),
                                     !.fails = @ + 1]
             /\ lastGap' = MinInterval
             /\ UNCHANGED <<ret, answer>>
    /\ UNCHANGED <<session, pc, exitCause, input, targets, target, autoFrame, flagLoop>>

\* what the wrappers do when the decorated function returns `value`:
\* last_called[0] = time.time(), and the retry wrapper returns the value
Succeed(value) ==
    /\ elapsed' = [elapsed EXCEPT ![call.op] = 0]
    /\ ret' = [kind |-> "ok", op |-> call.op, value |-> value, exc |-> "none",
               invocations |-> call.invocations, waits |-> call.waits,
               fails |-> call.fails]
    /\ call' = NoCall
    /\ lastGap' = MinInterval
    /\ UNCHANGED sinceIssue

\* get_targets: data.get('targets', [])
RespondTargets ==
    /\ pc # "exited"
    /\ call.phase = "sent"
    /\ call.op = "get_targets"
    /\ \E list \in TargetLists :
        /\ answer' = [kind |-> "ok", value |-> list]
        /\ Succeed(list)
    /\ UNCHANGED <<session, pc, exitCause, input, targets, target, autoFrame,
                   flagLoop>>

\* a faulty variant of Recorded: the new turn replaces the target's history
Recorded_replacing(history, tgt, message, text) ==
    Put(history, tgt, <<[message |-> message, response |-> text]>>)

\* send_attack: the turn is appended to the target's list, created if absent
\* (the turn's timestamp is not kept)
Recorded(history, tgt, message, text) ==
    Put(history, tgt,
        Append(IF tgt \in DOMAIN history THEN history[tgt] ELSE <<>>,
               [message |-> message, response |-> text]))

\* send_attack: data.get('response', '')
RespondAttack ==
    /\ pc # "exited"
    /\ call.phase = "sent"
    /\ call.op = "send_attack"
    /\ \E text \in Responses :
        /\ answer' = [kind |-> "ok", value |-> text]
        /\ conversation_history' =
               Recorded(conversation_history, call.target, call.arg, text)
        /\ Succeed(text)
    /\ UNCHANGED <<captured_flags, pc, exitCause, input, targets, target, autoFrame,
                   flagLoop>>

\* a faulty variant of Captured: the guess is recorded whatever the answer
Captured_always(flags, tgt, guess, correct) == Put(flags, tgt, guess)

\* submit_guess: `if correct: self.captured_flags[target_id] = guess`
Captured(flags, tgt, guess, correct) ==
    IF correct THEN Put(flags, tgt, guess) ELSE flags

\* submit_guess: data.get('correct', False)
RespondGuess ==
    /\ pc # "exited"
    /\ call.phase = "sent"
    /\ call.op = "submit_guess"
    /\ \E correct \in BOOLEAN :
        /\ answer' = [kind |-> "ok", value |-> correct]
        /\ captured_flags' = Captured(captured_flags, call.target, call.arg, correct)
        /\ Succeed(correct)
    /\ UNCHANGED <<conversation_history, pc, exitCause, input, targets, target,
                   autoFrame, flagLoop>>

\* time passes where the thread blocks: in input() and in a request
Tick ==
    /\ \/ pc \in {"top", "target", "target_action", "msg_flag"}
       \/ call.phase = "sent"
    /\ Advance(1)
    /\ UNCHANGED <<session, lastGap, pc, exitCause, input, targets, target, autoFrame,
                   flagLoop, callVars>>

\* ------------------------------------------------------------ console input

\* the lines a user types at a menu; "^2" stands for the one-character
\* line U+00B2 (superscript two)
TopChoices == {"q", "Q", "a", "s", "0", "1", "2", "3", "9", "-1", "x", ""}
TargetActions == {"b", "m", "s", "g", "h", "G", "x", ""}
StrategyChoices == {"0", "1", "2", "3", "9", "-1", "x", "", "^2"}

\* str.lower()
Lower(line) ==
    CASE line = "Q" -> "q"
      [] line = "G" -> "g"
      [] OTHER -> line

\* the lines int() accepts
ParsesAsInt(line) == line \in {"0", "1", "2", "3", "9", "-1"}

\* int(line), for a line int() accepts
IntOf(line) ==
    CASE line = "0" -> 0
      [] line = "1" -> 1
      [] line = "2" -> 2
      [] line = "3" -> 3
      [] line = "9" -> 9
      [] line = "-1" -> 0 - 1

\* str.isdigit(): true of a non-empty line of digit characters, among them
\* the superscript digits int() rejects
IsDigit(line) == line \in {"0", "1", "2", "3", "9", "^2"}

\* ------------------------------------------------------------ main

\* the pc values inside interactive_mode's `while True: try:`
LoopPcs ==
    {"top", "top_choice", "auto_get_targets", "auto_target", "auto_strategy",
     "auto_send", "auto_flag", "auto_guess", "target", "target_action",
     "strategy_choice", "msg_send", "msg_flag", "msg_guess", "strat_send",
     "guess_submit"}

\* the pc values inside automated_attack
AutoPcs ==
    {"auto_get_targets", "auto_target", "auto_strategy", "auto_send", "auto_flag",
     "auto_guess"}

\* the locals of a finished loop over candidates are dead
ClearFlagLoop ==
    /\ response' = <<>>
    /\ potential_flags' = <<>>
    /\ fi' = 0
    /\ tried' = <<>>

\* the locals of a finished visit of automated_attack's loop are dead
ClearVisit ==
    /\ target' = "none"
    /\ si' = 0
    /\ sent' = <<>>
    /\ ClearFlagLoop

\* the frames of automated_attack and _interact_with_target are left
DropFrames ==
    /\ target' = "none"
    /\ autoTargets' = <<>>
    /\ ti' = 0
    /\ si' = 0
    /\ sent' = <<>>
    /\ ClearFlagLoop

\* the process ends: only the session's results remain
Exit(cause) ==
    /\ pc' = "exited"
    /\ exitCause' = cause
    /\ elapsed' = [o \in Ops |-> MinInterval]
    /\ sinceIssue' = MinInterval
    /\ lastGap' = MinInterval
    /\ input' = ""
    /\ targets' = <<>>
    /\ DropFrames
    /\ call' = NoCall
    /\ ret' = NoRet
    /\ answer' = NoAnswer
    /\ UNCHANGED session

\* main() calls interactive_mode(), which starts with get_targets()
Start ==
    /\ pc = "main"
    /\ BeginCall("get_targets", "none", <<>>)
    /\ pc' = "im_get_targets"
    /\ UNCHANGED <<session, clock, exitCause, input, targets, target, autoFrame,
                   flagLoop>>

\* interactive_mode: `if not targets: return`, else the menu loop starts
StartReturned ==
    /\ pc = "im_get_targets"
    /\ Returned
    /\ IF ret.value = <<>>
       THEN Exit("no_targets")
       ELSE /\ pc' = "top"
            /\ targets' = ret.value
            /\ Consume
            /\ UNCHANGED <<session, clock, exitCause, input, target, autoFrame, flagLoop>>

\* the first get_targets() raises outside the loop's try: main's
\* `except Exception` reports it and main returns
StartRaised ==
    /\ pc = "im_get_targets"
    /\ Raised
    /\ Exit("startup_error")

\* ------------------------------------------------------------ top-level menu

TopRead ==
    /\ pc = "top"
    /\ \E line \in TopChoices : input' = line
    /\ pc' = "top_choice"
    /\ UNCHANGED <<session, clock, exitCause, targets, target, autoFrame, flagLoop,
                   callVars>>

\* `if choice.lower() == 'q': break`
TopQuit ==
    /\ pc = "top_choice"
    /\ Lower(input) = "q"
    /\ Exit("quit")

\* `elif choice.lower() == 'a': self.automated_attack()`, which starts with
\* get_targets()
TopAuto ==
    /\ pc = "top_choice"
    /\ Lower(input) = "a"
    /\ BeginCall("get_targets", "none", <<>>)
    /\ pc' = "auto_get_targets"
    /\ input' = ""
    /\ UNCHANGED <<session, clock, exitCause, targets, target, autoFrame,
                   flagLoop>>

\* `elif choice.lower() == 's': self.save_conversation_history()`
TopSave ==
    /\ pc = "top_choice"
    /\ Lower(input) = "s"
    /\ pc' = "top"
    /\ input' = ""
    /\ UNCHANGED <<session, clock, exitCause, targets, target, autoFrame,
                   flagLoop, callVars>>

IsTopCommand(line) == Lower(line) \in {"q", "a", "s"}

\* `idx = int(choice) - 1; if 0 <= idx < len(targets)`
SelectsTarget(line, list) ==
    /\ ParsesAsInt(line)
    /\ 0 <= IntOf(line) - 1
    /\ IntOf(line) - 1 < Len(list)

\* `self._interact_with_target(targets[idx])`
TopSelect ==
    /\ pc = "top_choice"
    /\ ~IsTopCommand(input)
    /\ SelectsTarget(input, targets)
    /\ target' = targets[IntOf(input)]
    /\ pc' = "target"
    /\ input' = ""
    /\ UNCHANGED <<session, clock, exitCause, targets, autoFrame, flagLoop,
                   callVars>>

\* `else: print("Invalid selection!")`
TopInvalidSelection ==
    /\ pc = "top_choice"
    /\ ~IsTopCommand(input)
    /\ ParsesAsInt(input)
    /\ ~SelectsTarget(input, targets)
    /\ pc' = "top"
    /\ input' = ""
    /\ UNCHANGED <<session, clock, exitCause, targets, target, autoFrame,
                   flagLoop, callVars>>

\* int(choice) raises: `except ValueError: print("Please enter a valid option")`
TopValueError ==
    /\ pc = "top_choice"
    /\ ~IsTopCommand(input)
    /\ ~ParsesAsInt(input)
    /\ pc' = "top"
    /\ input' = ""
    /\ UNCHANGED <<session, clock, exitCause, targets, target, autoFrame,
                   flagLoop, callVars>>

\* an API call made under the loop's try raises a ValueError (a
\* JSONDecodeError): the loop's `except ValueError` prints and the top-level
\* menu prompts again
LoopCaught ==
    /\ pc \in LoopPcs
    /\ Raised
    /\ IsValueError(ret.exc)
    /\ pc' = "top"
    /\ DropFrames
    /\ Consume
    /\ UNCHANGED <<session, clock, exitCause, input, targets>>

\* an API call made under the loop's try raises anything else: neither
\* `except` of the loop matches, main's `except Exception` reports it and
\* main returns
LoopUncaught ==
    /\ pc \in LoopPcs
    /\ Raised
    /\ ~IsValueError(ret.exc)
    /\ Exit("menu_error")

\* Ctrl-C: inside the loop `except KeyboardInterrupt: break`, and main goes
\* on to its epilogue; outside it the interrupt ends the process
Interrupt ==
    /\ pc # "exited"
    /\ Exit("interrupt")

\* ------------------------------------------------------------ automated_attack

\* the history cap of the model: a send starts only below it
MaySend == TotalTurns < MaxHistory

\* `targets = self.get_targets()` returned: the loop over targets starts
AutoTargetsReturned ==
    /\ pc = "auto_get_targets"
    /\ Returned
    /\ autoTargets' = ret.value
    /\ ti' = 1
    /\ pc' = "auto_target"
    /\ Consume
    /\ UNCHANGED <<session, clock, exitCause, input, targets, target, si, sent,
                   flagLoop>>

\* the loop over targets is over: automated_attack returns to the menu loop
AutoDone ==
    /\ pc = "auto_target"
    /\ ti > Len(autoTargets)
    /\ pc' = "top"
    /\ DropFrames
    /\ UNCHANGED <<session, clock, exitCause, input, targets, callVars>>

\* a faulty variant of AlreadyCaptured: no target is ever skipped
AlreadyCaptured_never(tgt) == FALSE

\* `if target_id in self.captured_flags`
AlreadyCaptured(tgt) == tgt \in DOMAIN captured_flags

\* `continue`: the target's flag is already captured
AutoSkip ==
    /\ pc = "auto_target"
    /\ ti <= Len(autoTargets)
    /\ AlreadyCaptured(autoTargets[ti])
    /\ ti' = ti + 1
    /\ UNCHANGED <<session, clock, pc, exitCause, input, targets, target, autoTargets,
                   si, sent, flagLoop, callVars>>

\* the loop over strategies starts for this target
AutoAttack ==
    /\ pc = "auto_target"
    /\ ti <= Len(autoTargets)
    /\ ~AlreadyCaptured(autoTargets[ti])
    /\ target' = autoTargets[ti]
    /\ si' = 1
    /\ sent' = <<>>
    /\ pc' = "auto_strategy"
    /\ UNCHANGED <<session, clock, exitCause, input, targets, autoTargets, ti,
                   flagLoop, callVars>>

\* the loop over strategies is over without a capture: next target
AutoExhausted ==
    /\ pc = "auto_strategy"
    /\ si > Len(DefaultStrategies)
    /\ ti' = ti + 1
    /\ pc' = "auto_target"
    /\ ClearVisit
    /\ UNCHANGED <<session, clock, exitCause, input, targets, autoTargets, callVars>>

\* `response = self.send_attack(target_id, strategy)`
AutoSend ==
    /\ pc = "auto_strategy"
    /\ si <= Len(DefaultStrategies)
    /\ MaySend
    /\ BeginCall("send_attack", target, DefaultStrategies[si])
    /\ sent' = Append(sent, DefaultStrategies[si])
    /\ pc' = "auto_send"
    /\ UNCHANGED <<session, clock, exitCause, input, targets, target, autoTargets, ti,
                   si, flagLoop>>

\* `potential_flags = self.extract_potential_flags(response)`
AutoSendReturned ==
    /\ pc = "auto_send"
    /\ Returned
    /\ response' = ret.value
    /\ potential_flags' \in ExtractPotentialFlags(ret.value)
    /\ fi' = 1
    /\ tried' = <<>>
    /\ pc' = "auto_flag"
    /\ Consume
    /\ UNCHANGED <<session, clock, exitCause, input, targets, target, autoFrame>>

\* a faulty variant of FlagsExhausted: only the first candidate is tried
FlagsExhausted_first(flags, i) == i > 1 \/ i > Len(flags)

\* the loop over potential_flags has no further element (an empty list
\* skips the `if potential_flags:` block, a finished loop runs its `else`)
FlagsExhausted(flags, i) == i > Len(flags)

\* no candidate was accepted: `continue` with the next strategy
AutoNextStrategy ==
    /\ pc = "auto_flag"
    /\ FlagsExhausted(potential_flags, fi)
    /\ si' = si + 1
    /\ pc' = "auto_strategy"
    /\ ClearFlagLoop
    /\ UNCHANGED <<session, clock, exitCause, input, targets, target, autoTargets, ti,
                   sent, callVars>>

\* `self.submit_guess(target_id, flag)`
AutoSubmit ==
    /\ pc = "auto_flag"
    /\ ~FlagsExhausted(potential_flags, fi)
    /\ BeginCall("submit_guess", target, potential_flags[fi])
    /\ tried' = Append(tried, potential_flags[fi])
    /\ pc' = "auto_guess"
    /\ UNCHANGED <<session, clock, exitCause, input, targets, target, autoFrame,
                   response, potential_flags, fi>>

\* the guess was correct: `break` out of both loops, next target
AutoCaptured ==
    /\ pc = "auto_guess"
    /\ Returned
    /\ ret.value = TRUE
    /\ ti' = ti + 1
    /\ pc' = "auto_target"
    /\ ClearVisit
    /\ Consume
    /\ UNCHANGED <<session, clock, exitCause, input, targets, autoTargets>>

\* the guess was wrong: next candidate
AutoRejected ==
    /\ pc = "auto_guess"
    /\ Returned
    /\ ret.value = FALSE
    /\ fi' = fi + 1
    /\ pc' = "auto_flag"
    /\ Consume
    /\ UNCHANGED <<session, clock, exitCause, input, targets, target, autoFrame,
                   response, potential_flags, tried>>

\* ------------------------------------------------------------ _interact_with_target

TargetRead ==
    /\ pc = "target"
    /\ \E line \in TargetActions : input' = line
    /\ pc' = "target_action"
    /\ UNCHANGED <<session, clock, exitCause, targets, target, autoFrame, flagLoop,
                   callVars>>

\* `if action == 'b': break`
TargetBack ==
    /\ pc = "target_action"
    /\ Lower(input) = "b"
    /\ pc' = "top"
    /\ DropFrames
    /\ input' = ""
    /\ UNCHANGED <<session, clock, exitCause, targets, callVars>>

\* `elif action == 'm'`: the typed message is sent
TargetMessage ==
    /\ pc = "target_action"
    /\ Lower(input) = "m"
    /\ MaySend
    /\ BeginCall("send_attack", target, TypedMessage)
    /\ pc' = "msg_send"
    /\ input' = ""
    /\ UNCHANGED <<session, clock, exitCause, targets, target, autoFrame,
                   flagLoop>>

MsgSendReturned ==
    /\ pc = "msg_send"
    /\ Returned
    /\ response' = ret.value
    /\ potential_flags' \in ExtractPotentialFlags(ret.value)
    /\ fi' = 1
    /\ tried' = <<>>
    /\ pc' = "msg_flag"
    /\ Consume
    /\ UNCHANGED <<session, clock, exitCause, input, targets, target, autoFrame>>

\* the loop over the candidates ends
MsgFlagsDone ==
    /\ pc = "msg_flag"
    /\ fi > Len(potential_flags)
    /\ pc' = "target"
    /\ ClearFlagLoop
    /\ UNCHANGED <<session, clock, exitCause, input, targets, target, autoFrame,
                   callVars>>

\* "Try '<flag>'? (y/n)" answered y
MsgTry ==
    /\ pc = "msg_flag"
    /\ fi <= Len(potential_flags)
    /\ BeginCall("submit_guess", target, potential_flags[fi])
    /\ tried' = Append(tried, potential_flags[fi])
    /\ pc' = "msg_guess"
    /\ UNCHANGED <<session, clock, exitCause, input, targets, target, autoFrame,
                   response, potential_flags, fi>>

\* "Try '<flag>'? (y/n)" answered otherwise
MsgDecline ==
    /\ pc = "msg_flag"
    /\ fi <= Len(potential_flags)
    /\ fi' = fi + 1
    /\ UNCHANGED <<session, clock, pc, exitCause, input, targets, target, autoFrame,
                   response, potential_flags, tried, callVars>>

\* the guess returned: a correct one breaks the loop over the candidates
MsgGuessReturned ==
    /\ pc = "msg_guess"
    /\ Returned
    /\ IF ret.value
       THEN pc' = "target" /\ ClearFlagLoop
       ELSE /\ pc' = "msg_flag"
            /\ fi' = fi + 1
            /\ UNCHANGED <<response, potential_flags, tried>>
    /\ Consume
    /\ UNCHANGED <<session, clock, exitCause, input, targets, target, autoFrame>>

\* `elif action == 's'`: the catalog is printed and a number is read
TargetStrategy ==
    /\ pc = "target_action"
    /\ Lower(input) = "s"
    /\ \E line \in StrategyChoices : input' = line
    /\ pc' = "strategy_choice"
    /\ UNCHANGED <<session, clock, exitCause, targets, target, autoFrame, flagLoop,
                   callVars>>

\* the right operand of `choice.isdigit() and 1 <= int(choice) <= len(strategies)`
InCatalog(line) == 1 <= IntOf(line) /\ IntOf(line) <= Len(DefaultStrategies)

\* the chosen strategy is sent
StrategySend ==
    /\ pc = "strategy_choice"
    /\ IsDigit(input)
    /\ ParsesAsInt(input)
    /\ InCatalog(input)
    /\ MaySend
    /\ BeginCall("send_attack", target, DefaultStrategies[IntOf(input)])
    /\ pc' = "strat_send"
    /\ input' = ""
    /\ UNCHANGED <<session, clock, exitCause, targets, target, autoFrame,
                   flagLoop>>

\* the condition is false: nothing is sent and the target menu prompts again
StrategyCancel ==
    /\ pc = "strategy_choice"
    /\ \/ ~IsDigit(input)
       \/ IsDigit(input) /\ ParsesAsInt(input) /\ ~InCatalog(input)
    /\ pc' = "target"
    /\ input' = ""
    /\ UNCHANGED <<session, clock, exitCause, targets, target, autoFrame,
                   flagLoop, callVars>>

\* isdigit() holds and int() raises ValueError: it leaves
\* _interact_with_target and is caught by the menu loop's `except ValueError`
StrategyValueError ==
    /\ pc = "strategy_choice"
    /\ IsDigit(input)
    /\ ~ParsesAsInt(input)
    /\ pc' = "top"
    /\ DropFrames
    /\ input' = ""
    /\ UNCHANGED <<session, clock, exitCause, targets, callVars>>

StrategySendReturned ==
    /\ pc = "strat_send"
    /\ Returned
    /\ pc' = "target"
    /\ Consume
    /\ UNCHANGED <<session, clock, exitCause, input, targets, target, autoFrame,
                   flagLoop>>

\* `elif action == 'g'`: the typed guess is submitted
TargetGuess ==
    /\ pc = "target_action"
    /\ Lower(input) = "g"
    /\ \E guess \in TypedGuesses : BeginCall("submit_guess", target, guess)
    /\ pc' = "guess_submit"
    /\ input' = ""
    /\ UNCHANGED <<session, clock, exitCause, targets, target, autoFrame,
                   flagLoop>>

\* a correct guess breaks the target menu's loop, a wrong one prompts again
GuessReturned ==
    /\ pc = "guess_submit"
    /\ Returned
    /\ IF ret.value
       THEN pc' = "top" /\ DropFrames
       ELSE pc' = "target" /\ UNCHANGED <<target, autoFrame, flagLoop>>
    /\ Consume
    /\ UNCHANGED <<session, clock, exitCause, input, targets>>

\* `elif action == 'h'`: the history is printed
TargetHistory ==
    /\ pc = "target_action"
    /\ Lower(input) = "h"
    /\ pc' = "target"
    /\ input' = ""
    /\ UNCHANGED <<session, clock, exitCause, targets, target, autoFrame,
                   flagLoop, callVars>>

\* `else: print("Invalid action!")`
TargetInvalid ==
    /\ pc = "target_action"
    /\ Lower(input) \notin {"b", "m", "s", "g", "h"}
    /\ pc' = "target"
    /\ input' = ""
    /\ UNCHANGED <<session, clock, exitCause, targets, target, autoFrame,
                   flagLoop, callVars>>

\* ------------------------------------------------------------ specification

Next ==
    \/ Start \/ StartReturned \/ StartRaised
    \/ TopRead \/ TopQuit \/ TopAuto \/ TopSave \/ TopSelect
    \/ TopInvalidSelection \/ TopValueError
    \/ LoopCaught \/ LoopUncaught \/ Interrupt
    \/ AutoTargetsReturned \/ AutoDone \/ AutoSkip \/ AutoAttack
    \/ AutoExhausted \/ AutoSend \/ AutoSendReturned
    \/ AutoNextStrategy \/ AutoSubmit \/ AutoCaptured \/ AutoRejected
    \/ TargetRead \/ TargetBack \/ TargetMessage \/ MsgSendReturned
    \/ MsgFlagsDone \/ MsgTry \/ MsgDecline \/ MsgGuessReturned
    \/ TargetStrategy \/ StrategySend \/ StrategyCancel \/ StrategyValueError
    \/ StrategySendReturned \/ TargetGuess \/ GuessReturned
    \/ TargetHistory \/ TargetInvalid
    \/ CallIssue \/ RespondFailure \/ RespondTargets \/ RespondAttack
    \/ RespondGuess \/ Tick

Spec == Init /\ [][Next]_vars

\* ------------------------------------------------------------ extraction alone

\* the pieces the texts of the extraction check are built from
Pieces ==
    { BracketPrefixes[1], BracketPrefixes[4], <<"}">>, <<"a">>, <<" ">>,
      Str(MD5Len, "a"), Str(SHA1Len - MD5Len, "a") }

RECURSIVE PieceLists(_)
PieceLists(n) ==
    IF n = 0 THEN {<<>>}
    ELSE PieceLists(n - 1) \cup
         {Append(l, x) : l \in {q \in PieceLists(n - 1) : Len(q) = n - 1}, x \in Pieces}

ExtractTexts == {Concat(l) : l \in PieceLists(MaxPieces)}

\* client.extract_potential_flags(text) called once, on a fresh client
ExtractCall ==
    /\ pc = "main"
    /\ response = <<>>
    /\ \E text \in ExtractTexts :
        /\ response' = text
        /\ potential_flags' \in ExtractPotentialFlags(text)
    /\ UNCHANGED <<session, clock, pc, exitCause, input, targets, target, autoFrame,
                   fi, tried, callVars>>

SpecExtract == Init /\ [][ExtractCall]_vars

\* ------------------------------------------------------------ claims

History(h, t) == IF t \in DOMAIN h THEN h[t] ELSE <<>>

\* C1: once a target has a recorded flag, no step changes that target's
\* entry of captured_flags.
C1_FlagNeverOverwritten ==
    [][\A t \in DOMAIN captured_flags :
          /\ t \in DOMAIN captured_flags'
          /\ captured_flags'[t] = captured_flags[t]]_vars

\* C2: inside automated_attack every send_attack and submit_guess in
\* progress is for a target that is not in captured_flags.
C2_AutoNeverCallsCaptured ==
    (pc \in AutoPcs /\ call.phase # "idle" /\ call.op \in {"send_attack", "submit_guess"})
        => call.target \notin DOMAIN captured_flags

\* C2 witness: automated_attack finished a run over a list naming t1 twice
\* in which t1, captured after its strategy was sent, was later skipped.
C2_Witness ==
    /\ pc = "auto_target"
    /\ ti = Len(autoTargets) + 1
    /\ Len(autoTargets) = 3
    /\ "t1" \in DOMAIN captured_flags
    /\ "t1" \in DOMAIN conversation_history
    /\ conversation_history["t1"][1].message = DefaultStrategies[1]

\* C3: within one visit of automated_attack's loop the messages sent are
\* the catalog's strategies in order, each once; the next strategy is sent
\* only after every candidate of the last response was submitted; and the
\* loop leaves a target either after the last strategy or on a capture.
C3_AutoExhaustsCatalog ==
    [][/\ (pc' = "auto_send" /\ pc = "auto_strategy")
            => /\ sent' = SubSeq(DefaultStrategies, 1, Len(sent'))
               /\ call'.arg = DefaultStrategies[Len(sent')]
               /\ Len(sent') = Len(sent) + 1
       /\ (pc = "auto_flag" /\ pc' = "auto_strategy")
            => Range(tried) = Range(ExtendAll(response, 1))
       /\ (pc \in {"auto_strategy", "auto_send", "auto_flag", "auto_guess"}
             /\ pc' = "auto_target")
            => \/ /\ sent = DefaultStrategies
                  /\ target \notin DOMAIN captured_flags
                  /\ pc = "auto_strategy"
               \/ /\ target \in DOMAIN captured_flags
                  /\ pc = "auto_guess"]_vars

\* C3 witness: the loop left t1 uncaptured after the whole catalog, one of
\* whose responses held candidates that were all rejected.
C3_Witness ==
    /\ pc = "auto_target"
    /\ ti = 2
    /\ "t1" \notin DOMAIN captured_flags
    /\ "t1" \in DOMAIN conversation_history
    /\ [k \in 1..Len(conversation_history["t1"]) |->
            conversation_history["t1"][k].message] = DefaultStrategies
    /\ \E k \in 1..Len(conversation_history["t1"]) :
            ExtendAll(conversation_history["t1"][k].response, 1) # <<>>

\* C4: a call whose first two attempts failed and whose third succeeded
\* returns the third answer after exactly 3 requests and the two backoff
\* waits delay * 1 and delay * 2.
C4_ThirdAttemptSucceeds ==
    (ret.kind = "ok" /\ ret.fails = 2)
        => /\ ret.invocations = 3
           /\ ret.waits = <<DelayTicks * 1, DelayTicks * 2>>
           /\ answer.kind = "ok"
           /\ ret.value = answer.value

C4_Witness ==
    /\ ret.kind = "ok"
    /\ ret.fails = 2
    /\ ret.op = "send_attack"

\* C5: a call never makes more than max_retries requests; when every
\* attempt failed it made exactly max_retries, waited only between them,
\* and raises the last attempt's failure.
C5_AllAttemptsFail ==
    /\ call.invocations <= MaxRetries
    /\ ret.kind = "exc"
        => /\ ret.invocations = MaxRetries
           /\ ret.fails = MaxRetries
           /\ Len(ret.waits) = MaxRetries - 1
           /\ ret.exc \in Failures
           /\ ret.exc = answer.kind
           /\ call.phase = "idle"

C5_Witness ==
    /\ ret.kind = "exc"
    /\ ret.op = "submit_guess"
    /\ ret.exc = "ConnectionError"
    /\ pc = "guess_submit"

\* C6: every outbound request goes out at least min_interval after the
\* one before it.
C6_RequestsSpaced ==
    call.phase = "sent" => lastGap >= MinInterval

\* C7: a step leaves every target's history unchanged, except that a
\* successful send_attack appends its one turn to its target's history.
C7_HistoryAppendOnly ==
    [][\A t \in Targets :
          LET old == History(conversation_history, t)
              new == History(conversation_history', t)
              sends == /\ call.phase = "sent"
                       /\ call.op = "send_attack"
                       /\ call.target = t
                       /\ ret'.kind = "ok"
          IN  /\ (t \in DOMAIN conversation_history => t \in DOMAIN conversation_history')
              /\ IF sends
                 THEN new = Append(old, [message |-> call.arg, response |-> answer'.value])
                 ELSE new = old]_vars

\* C7 witness: a history of two turns, the second appended behind the first.
C7_Witness ==
    \E t \in DOMAIN conversation_history :
        /\ Len(conversation_history[t]) >= 2
        /\ conversation_history[t][1].message # conversation_history[t][2].message

\* C8: the process never ends because an operation started from a menu
\* choice failed.
C8_LoopSurvivesErrors ==
    ~(pc = "exited" /\ exitCause = "menu_error")

\* the lines that name a strategy of the catalog
NamesStrategy(line) == ParsesAsInt(line) /\ InCatalog(line)

\* C9: the step that handles a menu line that is no valid choice (any step
\* but time passing and an interrupt) leads back to the prompt of the same
\* menu with no call started and the session unchanged.
C9_InvalidInputReprompts ==
    [][(pc' # pc /\ pc' # "exited")
          => /\ (pc = "top_choice" /\ ~IsTopCommand(input) /\ ~SelectsTarget(input, targets))
                  => (pc' = "top" /\ call' = NoCall /\ UNCHANGED session)
             /\ (pc = "target_action" /\ Lower(input) \notin {"b", "m", "s", "g", "h"})
                  => (pc' = "target" /\ call' = NoCall /\ UNCHANGED session)
             /\ (pc = "strategy_choice" /\ ~NamesStrategy(input))
                  => (pc' = "target" /\ call' = NoCall /\ UNCHANGED session)]_vars

\* `e` is PREFIX{body} with a non-empty body free of "}"
IsBracketToken(e, prefix) ==
    /\ Len(e) >= Len(prefix) + 2
    /\ SubSeq(e, 1, Len(prefix)) = prefix
    /\ e[Len(e)] = "}"
    /\ \A k \in (Len(prefix) + 1)..(Len(e) - 1) : e[k] # "}"

\* `e` is one of the declared shapes
IsDeclaredShape(e) ==
    \/ \E p \in 1..Len(BracketPrefixes) : IsBracketToken(e, BracketPrefixes[p])
    \/ Len(e) \in Range(RunLengths) /\ \A k \in 1..Len(e) : IsAlnum(e[k])

IsSubstring(e, text) ==
    \E i \in 1..Len(text) : i + Len(e) - 1 <= Len(text) /\ SubSeq(text, i, i + Len(e) - 1) = e

NoDuplicates(list) == \A i, j \in 1..Len(list) : list[i] = list[j] => i = j

\* the places (i, e, p) at which text[i..e] starts with prefix p and ends
\* with "}"
BracePlaces(text) ==
    LET closes == {e \in 1..Len(text) : text[e] = "}"}
        starts(p) == {i \in 1..Len(text) : HasLiteralAt(text, i, BracketPrefixes[p])}
    IN  UNION {{<<i, e, p>> : i \in starts(p), e \in closes} :
                    p \in 1..Len(BracketPrefixes)}

\* the places (i, e, p) at which text[i..e] is a bracketed token of prefix p
TokenPlaces(text) ==
    {x \in BracePlaces(text) :
        /\ x[1] < x[2]
        /\ IsBracketToken(SubSeq(text, x[1], x[2]), BracketPrefixes[x[3]])}

\* the places (i, e) of the maximal alphanumeric runs of length n
RunPlaces(text, n) ==
    LET starts == {i \in 1..Len(text) :
                      /\ IsAlnum(text[i])
                      /\ (i = 1 \/ ~IsAlnum(text[i - 1]))
                      /\ i + n - 1 <= Len(text)}
    IN  {<<i, i + n - 1>> : i \in
            {j \in starts :
                /\ \A k \in j..(j + n - 1) : IsAlnum(text[k])
                /\ (j + n - 1 = Len(text) \/ ~IsAlnum(text[j + n]))}}

C10_Sound ==
    /\ NoDuplicates(potential_flags)
    /\ \A k \in 1..Len(potential_flags) :
          /\ IsSubstring(potential_flags[k], response)
          /\ IsDeclaredShape(potential_flags[k])

\* C10 as stated: the candidates are distinct substrings of declared shape,
\* and every bracketed token and every 32-character run of the text is
\* among them.
C10_EveryTokenFound ==
    /\ C10_Sound
    /\ \A x \in TokenPlaces(response) :
          SubSeq(response, x[1], x[2]) \in Range(potential_flags)
    /\ \A x \in RunPlaces(response, MD5Len) :
          SubSeq(response, x[1], x[2]) \in Range(potential_flags)

\* C10 amended: the candidates are distinct substrings of declared shape,
\* and every bracketed token that does not lie inside a longer token of
\* the same prefix, and every maximal 32-character run, is among them.
C10_OutermostTokenFound ==
    /\ C10_Sound
    /\ \A x \in TokenPlaces(response) :
          (~\E y \in TokenPlaces(response) :
                y[3] = x[3] /\ y[1] < x[1] /\ x[2] <= y[2])
            => SubSeq(response, x[1], x[2]) \in Range(potential_flags)
    /\ \A x \in RunPlaces(response, MD5Len) :
          SubSeq(response, x[1], x[2]) \in Range(potential_flags)

\* C10 witness: a bracketed token around a 64-character run, whose two
\* 32-character halves collapse into one candidate.
C10_Witness ==
    /\ Len(ExtendAll(response, 1)) > Len(potential_flags)
    /\ \E k \in 1..Len(potential_flags) :
          IsBracketToken(potential_flags[k], BracketPrefixes[1])
    /\ \E k \in 1..Len(potential_flags) : Len(potential_flags[k]) = SHA256Len

\* an attempt in progress fails in this step: it is retried (the call is
\* ready again with one failure more) or its failure is raised
AttemptFails ==
    /\ call.phase = "sent"
    /\ \/ call'.phase = "ready" /\ call'.fails = call.fails + 1
       \/ ret'.kind = "exc"

\* an attempt in progress of `op` succeeds in this step
AttemptSucceeds(op) ==
    /\ call.phase = "sent"
    /\ call.op = op
    /\ ret'.kind = "ok"

====
